---- MODULE Spec2Model ----
(***************************************************************************)
(* Model of allennlp/commands/diff.py: checkpoint_diff (a Myers edit-script *)
(* search over the (key, shape) lists of two state dictionaries) and        *)
(* _finalize (the pass that turns a Keep into a Modify when the weights     *)
(* differ).                                                                 *)
(*                                                                          *)
(* A state dictionary is an insertion-ordered mapping: a sequence of        *)
(* <<key, tensor>> pairs with pairwise distinct keys.  A tensor is the      *)
(* sequence of its elements, and its shape is the 1-tuple <<numel>>.        *)
(* One step of the model is one pass through the body of the inner loop     *)
(* "for k in range(-d, d + 1, 2)", the call of _finalize included when the  *)
(* pass returns.                                                            *)
(***************************************************************************)
EXTENDS Integers, Sequences, FiniteSets, TLC

\* ---------------------------------------------------------------- bounds
NumKeys == 2
MaxLen == 2

Keys == 1..NumKeys
ElemVals == {0, 1}
Numels == {0, 1}
Tensors == UNION {[1..n -> ElemVals] : n \in Numels}

\* tuple(v.shape) of a tensor
Shape(t) == <<Len(t)>>

RECURSIVE DictsOfLen(_)
DictsOfLen(n) ==
  IF n = 0 THEN {<<>>}
  ELSE {Append(sd, <<key, t>>) :
          sd \in DictsOfLen(n - 1), key \in Keys, t \in Tensors}

UniqueKeys(sd) == \A i, j \in 1..Len(sd) : sd[i][1] = sd[j][1] => i = j

\* every state dictionary with at most MaxLen entries
StateDicts == {sd \in UNION {DictsOfLen(n) : n \in 0..MaxLen} : UniqueKeys(sd)}

VARIABLES state_dict_a, state_dict_b, param_list_a, param_list_b, frontier, recorded, d, k, x, y,
          go_down, used_a, used_b, history, out, pc

vars == <<state_dict_a, state_dict_b, param_list_a, param_list_b, frontier, recorded, d, k, x, y,
          go_down, used_a, used_b, history, out, pc>>

\* ------------------------------------------------------- step records
Keep(p) == [op |-> "Keep", key |-> p[1], shape |-> p[2]]
Insert(p) == [op |-> "Insert", key |-> p[1], shape |-> p[2]]
Remove(p) == [op |-> "Remove", key |-> p[1], shape |-> p[2]]
Modify(key, shape, distance) ==
  [op |-> "Modify", key |-> key, shape |-> shape, distance |-> distance]

_Frontier(fx, fhistory) == [x |-> fx, history |-> fhistory]

\* ------------------------------------------------------------ helpers
\* [(k, tuple(v.shape)) for k, v in state_dict.items()]
ParamList(sd) == [i \in 1..Len(sd) |-> <<sd[i][1], Shape(sd[i][2])>>]

a_max == Len(param_list_a)
b_max == Len(param_list_b)

one(idx) == idx - 1

\* Python list indexing with a 0-based index: negative indices count from
\* the end, anything outside -len..len-1 raises IndexError.
IndexOk(list, idx) == -Len(list) <= idx /\ idx < Len(list)
PyIndex(list, idx) == IF idx >= 0 THEN list[idx + 1] ELSE list[Len(list) + idx + 1]

\* state_dict[key]
HasKey(sd, key) == \E i \in 1..Len(sd) : sd[i][1] = key
Lookup(sd, key) == sd[CHOOSE i \in 1..Len(sd) : sd[i][1] = key][2]

\* ------------------------------------------------------ _finalize
RECURSIVE SumSq(_, _, _)
SumSq(a, b, n) == IF n = 0 THEN 0 ELSE (a[n] - b[n]) * (a[n] - b[n]) + SumSq(a, b, n - 1)

Min(m, n) == IF m <= n THEN m ELSE n

\* torch.nn.functional.mse_loss(a, b).sqrt().item(): the mean of the squared
\* differences, which is 0/0 = nan for tensors without elements.  The value
\* is kept as numel * dist^2, which is zero exactly when dist is.
Dist(a_tensor, b_tensor) ==
  LET n == Min(Len(a_tensor), Len(b_tensor))
  IN IF n = 0 THEN [nan |-> TRUE, sq |-> 0]
     ELSE [nan |-> FALSE, sq |-> SumSq(a_tensor, b_tensor, n)]

\* dist != 0.0 (nan != 0.0 is True)
NonZero(dist) == dist.nan \/ dist.sq # 0

FinalizeStep(step, sd_a, sd_b) ==
  IF step.op = "Keep"
  THEN LET dist == Dist(Lookup(sd_a, step.key), Lookup(sd_b, step.key))
       IN IF NonZero(dist) THEN Modify(step.key, step.shape, dist) ELSE step
  ELSE step

\* the lookups state_dict_a[step.key], state_dict_b[step.key] of every Keep
FinalizeLookupsOk(hist, sd_a, sd_b) ==
  \A i \in 1..Len(hist) :
    hist[i].op = "Keep" => HasKey(sd_a, hist[i].key) /\ HasKey(sd_b, hist[i].key)

_finalize(hist, sd_a, sd_b) == [i \in 1..Len(hist) |-> FinalizeStep(hist[i], sd_a, sd_b)]

\* ------------------------------------------------- checkpoint_diff
\* variant: range(0, a_max + b_max), one level short
LastLevel_Short == a_max + b_max - 1

\* range(0, a_max + b_max + 1): the last distance level that is searched
LastLevel == a_max + b_max

\* variant: the comparison of the two frontier entries is not strict
GoDown_Le(dd, kk, fr) == kk = -dd \/ (kk # dd /\ fr[kk - 1].x <= fr[kk + 1].x)

\* go_down = k == -d or (k != d and frontier[k - 1].x < frontier[k + 1].x)
GoDown(dd, kk, fr) == kk = -dd \/ (kk # dd /\ fr[kk - 1].x < fr[kk + 1].x)

\* the diagonals whose frontier entry the go_down test reads
TestReads(dd, kk) == IF kk = -dd \/ kk = dd THEN {} ELSE {kk - 1, kk + 1}

\* the diagonal the starting point is taken from
StartDiagonal(gd, kk) == IF gd THEN kk + 1 ELSE kk - 1

\* variant: the right move forgets to advance x
StartX_Same(gd, old_x) == old_x

\* x = old_x when going down, x = old_x + 1 when going right
StartX(gd, old_x) == IF gd THEN old_x ELSE old_x + 1

\* variant: the guard starts at 0
InsertGuard_Zero(yy, gd) == 0 <= yy /\ yy <= b_max /\ gd

\* if 1 <= y <= b_max and go_down
InsertGuard(yy, gd) == 1 <= yy /\ yy <= b_max /\ gd

\* variant: the guard starts at 0
RemoveGuard_Zero(xx) == 0 <= xx /\ xx <= a_max

\* elif 1 <= x <= a_max
RemoveGuard(xx) == 1 <= xx /\ xx <= a_max

\* lines 207-210: the step appended for the discrete move
MoveStep(xx, yy, gd, hist) ==
  IF InsertGuard(yy, gd)
  THEN [ok |-> IndexOk(param_list_b, one(yy)), ia |-> {}, ib |-> {one(yy)},
        history |-> IF IndexOk(param_list_b, one(yy))
                    THEN Append(hist, Insert(PyIndex(param_list_b, one(yy))))
                    ELSE hist]
  ELSE IF RemoveGuard(xx)
  THEN [ok |-> IndexOk(param_list_a, one(xx)), ia |-> {one(xx)}, ib |-> {},
        history |-> IF IndexOk(param_list_a, one(xx))
                    THEN Append(hist, Remove(PyIndex(param_list_a, one(xx))))
                    ELSE hist]
  ELSE [ok |-> TRUE, ia |-> {}, ib |-> {}, history |-> hist]

\* variant: only the keys are compared
SameParam_KeyOnly(pa, pb) == pa[1] = pb[1]

\* param_list_a[one(x + 1)] == param_list_b[one(y + 1)]
SameParam(pa, pb) == pa = pb

\* x < a_max and y < b_max
InBounds(xx, yy) == xx < a_max /\ yy < b_max

\* lines 215-218: the diagonal moves
RECURSIVE Chew(_)
Chew(st) ==
  IF ~st.ok \/ ~InBounds(st.x, st.y) THEN st
  ELSE IF ~(IndexOk(param_list_a, one(st.x + 1)) /\ IndexOk(param_list_b, one(st.y + 1)))
  THEN [st EXCEPT !.ok = FALSE,
                  !.ia = @ \cup {one(st.x + 1)}, !.ib = @ \cup {one(st.y + 1)}]
  ELSE IF SameParam(PyIndex(param_list_a, one(st.x + 1)), PyIndex(param_list_b, one(st.y + 1)))
  THEN Chew([st EXCEPT !.x = @ + 1, !.y = @ + 1,
                       !.ia = @ \cup {one(st.x + 1)}, !.ib = @ \cup {one(st.y + 1)},
                       !.history = Append(@, Keep(PyIndex(param_list_a, one(st.x + 1))))])
  ELSE [st EXCEPT !.ia = @ \cup {one(st.x + 1)}, !.ib = @ \cup {one(st.y + 1)}]

\* variant: either end suffices
Done_Or(xx, yy) == xx >= a_max \/ yy >= b_max

\* if x >= a_max and y >= b_max
Done(xx, yy) == xx >= a_max /\ yy >= b_max

\* lines 193-218: the move, the appended step and the diagonal moves, for
\* a go_down decision already taken
BodyFrom(gd, kk, fr) ==
  LET sk == StartDiagonal(gd, kk)
  IN IF sk \notin DOMAIN fr
     THEN [status |-> "KeyError", go_down |-> gd, x |-> 0, y |-> 0,
           ia |-> {}, ib |-> {}, history |-> <<>>]
     ELSE
       LET x0 == StartX(gd, fr[sk].x)
           y0 == x0 - kk
           mv == MoveStep(x0, y0, gd, fr[sk].history)
           ch == Chew([ok |-> mv.ok, x |-> x0, y |-> y0, ia |-> mv.ia,
                       ib |-> mv.ib, history |-> mv.history])
       IN [status |-> IF ch.ok THEN "ok" ELSE "IndexError", go_down |-> gd,
           x |-> ch.x, y |-> ch.y, ia |-> ch.ia, ib |-> ch.ib,
           history |-> ch.history]

\* lines 187-218: one pass through the loop body, up to the test of line 220
Body(dd, kk, fr) ==
  IF ~(TestReads(dd, kk) \subseteq DOMAIN fr)
  THEN [status |-> "KeyError", go_down |-> FALSE, x |-> 0, y |-> 0,
        ia |-> {}, ib |-> {}, history |-> <<>>]
  ELSE BodyFrom(GoDown(dd, kk, fr), kk, fr)

\* frontier[k] = _Frontier(x, history)
Record(fr, kk, entry) ==
  [j \in DOMAIN fr \cup {kk} |-> IF j = kk THEN entry ELSE fr[j]]

\* the loop headers of lines 175-176
NextD == IF pc = "start" THEN 0 ELSE IF k + 2 <= d THEN d ELSE d + 1
NextK == IF pc = "start" THEN 0 ELSE IF k + 2 <= d THEN k + 2 ELSE -(d + 1)

Init ==
  /\ state_dict_a \in StateDicts
  /\ state_dict_b \in StateDicts
  /\ param_list_a = ParamList(state_dict_a)
  /\ param_list_b = ParamList(state_dict_b)
  /\ frontier = [j \in {1} |-> _Frontier(0, <<>>)]
  /\ recorded = [j \in {1} |-> -1]
  /\ d = 0
  /\ k = 0
  /\ x = 0
  /\ y = 0
  /\ go_down = FALSE
  /\ used_a = {}
  /\ used_b = {}
  /\ history = <<>>
  /\ out = <<>>
  /\ pc = "start"

\* One pass of the search loop: advance (d, k), run the body, then return
\* through _finalize or record the frontier; leaving the outer loop reaches
\* the assert of line 227.
Iterate ==
  /\ pc \in {"start", "search"}
  /\ UNCHANGED <<state_dict_a, state_dict_b, param_list_a, param_list_b>>
  /\ IF NextD > LastLevel
     THEN /\ pc' = "AssertionError"
          /\ UNCHANGED <<frontier, recorded, d, k, x, y, go_down, used_a, used_b,
                         history, out>>
     ELSE LET r == Body(NextD, NextK, frontier)
          IN /\ d' = NextD
             /\ k' = NextK
             /\ x' = r.x
             /\ y' = r.y
             /\ go_down' = r.go_down
             /\ used_a' = r.ia
             /\ used_b' = r.ib
             /\ IF r.status # "ok"
                THEN /\ pc' = r.status
                     /\ UNCHANGED <<frontier, recorded, history, out>>
                ELSE IF Done(r.x, r.y)
                THEN /\ history' = r.history
                     /\ IF FinalizeLookupsOk(r.history, state_dict_a, state_dict_b)
                        THEN /\ out' = _finalize(r.history, state_dict_a, state_dict_b)
                             /\ pc' = "done"
                        ELSE /\ out' = out
                             /\ pc' = "KeyError"
                     /\ UNCHANGED <<frontier, recorded>>
                ELSE /\ frontier' = Record(frontier, NextK, _Frontier(r.x, r.history))
                     /\ recorded' = Record(recorded, NextK, NextD)
                     /\ pc' = "search"
                     /\ UNCHANGED <<history, out>>

Next == Iterate

Spec == Init /\ [][Next]_vars

\* =================================================== properties
RECURSIVE Proj(_, _)
\* the (key, shape) of the steps whose kind is in ops, in order
Proj(steps, ops) ==
  IF steps = <<>> THEN <<>>
  ELSE LET h == Head(steps)
           r == Proj(Tail(steps), ops)
       IN IF h.op \in ops THEN <<<<h.key, h.shape>>>> \o r ELSE r

Count(steps, ops) == Len(Proj(steps, ops))

RECURSIVE LCS(_, _, _, _)
\* length of a longest common subsequence of the first i elements of a
\* and the first j elements of b
LCS(a, b, i, j) ==
  IF i = 0 \/ j = 0 THEN 0
  ELSE IF a[i] = b[j] THEN 1 + LCS(a, b, i - 1, j - 1)
  ELSE LET l == LCS(a, b, i - 1, j)
           r == LCS(a, b, i, j - 1)
       IN IF l >= r THEN l ELSE r

KeysOf(sd) == {sd[i][1] : i \in 1..Len(sd)}
Returned == pc = "done"
Visited == pc \in {"search", "done"}
InRange(j) ==
  /\ 0 <= frontier[j].x /\ frontier[j].x <= a_max
  /\ 0 <= frontier[j].x - j /\ frontier[j].x - j <= b_max

\* C1: the returned steps are an edit script from A to B: the Keep/Modify and
\* Remove steps read in order are A's list, the Keep/Modify and Insert steps
\* read in order are B's list.
C1_EditScript ==
  Returned =>
    /\ Proj(out, {"Keep", "Modify", "Remove"}) = ParamList(state_dict_a)
    /\ Proj(out, {"Keep", "Modify", "Insert"}) = ParamList(state_dict_b)

C1_Witness ==
  /\ Returned
  /\ Count(out, {"Keep", "Modify"}) > 0
  /\ Count(out, {"Insert"}) > 0
  /\ Count(out, {"Remove"}) > 0

\* C2: the number of Insert and Remove steps of the script the search returns,
\* and the level d it returns at, equal |A| + |B| - 2 * LCS(A, B).
C2_Minimal ==
  Returned =>
    LET dist == a_max + b_max - 2 * LCS(param_list_a, param_list_b, a_max, b_max)
    IN Count(history, {"Insert", "Remove"}) = dist /\ d = dist

C2_Witness ==
  /\ Returned
  /\ LCS(param_list_a, param_list_b, a_max, b_max) = 1
  /\ a_max = 2
  /\ b_max = 2
  /\ param_list_a[1] # param_list_b[1]
  /\ param_list_a[2] # param_list_b[2]

\* C3: every Insert step carries a key that is in B and not in A, every Remove
\* step a key that is in A and not in B.
C3_OnlyInOne ==
  Returned =>
    \A i \in 1..Len(out) :
      /\ out[i].op = "Insert" =>
           out[i].key \in KeysOf(state_dict_b) /\ out[i].key \notin KeysOf(state_dict_a)
      /\ out[i].op = "Remove" =>
           out[i].key \in KeysOf(state_dict_a) /\ out[i].key \notin KeysOf(state_dict_b)

\* C4: a key in both A and B with different shapes is reported as a Remove
\* with A's shape and an Insert with B's shape and never as a Keep or Modify;
\* every Keep or Modify names a key of both mappings with equal shapes, so
\* the lookups of _finalize succeed.
C4_ShapeChange ==
  /\ pc # "KeyError"
  /\ Returned =>
       /\ \A key \in KeysOf(state_dict_a) \cap KeysOf(state_dict_b) :
            Shape(Lookup(state_dict_a, key)) # Shape(Lookup(state_dict_b, key)) =>
              /\ \E i \in 1..Len(out) :
                   out[i] = Remove(<<key, Shape(Lookup(state_dict_a, key))>>)
              /\ \E i \in 1..Len(out) :
                   out[i] = Insert(<<key, Shape(Lookup(state_dict_b, key))>>)
              /\ \A i \in 1..Len(out) :
                   out[i].op \in {"Keep", "Modify"} => out[i].key # key
       /\ \A i \in 1..Len(out) :
            out[i].op \in {"Keep", "Modify"} =>
              /\ history[i].op = "Keep"
              /\ out[i].key \in KeysOf(state_dict_a) \cap KeysOf(state_dict_b)
              /\ Shape(Lookup(state_dict_a, out[i].key)) = out[i].shape
              /\ Shape(Lookup(state_dict_b, out[i].key)) = out[i].shape

C4_Witness ==
  /\ Returned
  /\ \E key \in KeysOf(state_dict_a) \cap KeysOf(state_dict_b) :
       Shape(Lookup(state_dict_a, key)) # Shape(Lookup(state_dict_b, key))
  /\ Count(out, {"Keep", "Modify"}) > 0

\* C5: _finalize keeps length and order, leaves Insert and Remove steps as
\* they are, turns a Keep into a Modify with the same key and shape exactly
\* when the two tensors differ, and leaves a Keep of identical tensors a Keep.
C5_Finalize ==
  Returned =>
    /\ Len(out) = Len(history)
    /\ \A i \in 1..Len(history) :
         /\ history[i].op \in {"Insert", "Remove"} => out[i] = history[i]
         /\ out[i].op = "Modify" =>
              /\ history[i].op = "Keep"
              /\ out[i].key = history[i].key
              /\ out[i].shape = history[i].shape
         /\ history[i].op = "Keep" =>
              LET a_tensor == Lookup(state_dict_a, history[i].key)
                  b_tensor == Lookup(state_dict_b, history[i].key)
              IN IF a_tensor = b_tensor THEN out[i] = history[i]
                 ELSE out[i].op = "Modify"

\* C6: the search returns at a level 0 <= d <= |A| + |B|; the assert after
\* the loop is never reached.
C6_Terminates ==
  /\ pc # "AssertionError"
  /\ Returned => 0 <= d /\ d <= a_max + b_max

C6_Witness == Returned /\ d = a_max + b_max /\ d = 2 * MaxLen

\* the tie-break as the specification words it: down when diagonal k-1 has
\* reached further right than diagonal k+1
StatedRule(dd, kk, fr) == kk = -dd \/ (kk # dd /\ fr[kk - 1].x > fr[kk + 1].x)

\* the tie-break with the comparison the other way round
AmendedRule(dd, kk, fr) == kk = -dd \/ (kk # dd /\ fr[kk - 1].x < fr[kk + 1].x)

RuleAt(rule, dd, kk, fr) ==
  IF rule = "stated" THEN StatedRule(dd, kk, fr) ELSE AmendedRule(dd, kk, fr)

Failed == <<[op |-> "Failed", key |-> 0, shape |-> <<>>]>>

RECURSIVE EngineRun(_, _, _, _)
\* the script of an engine that decides down or right by the given rule
EngineRun(rule, dd, kk, fr) ==
  IF dd > a_max + b_max THEN Failed
  ELSE LET r == BodyFrom(RuleAt(rule, dd, kk, fr), kk, fr)
       IN IF r.status # "ok" THEN Failed
          ELSE IF r.x >= a_max /\ r.y >= b_max THEN r.history
          ELSE EngineRun(rule,
                         IF kk + 2 <= dd THEN dd ELSE dd + 1,
                         IF kk + 2 <= dd THEN kk + 2 ELSE -(dd + 1),
                         [j \in DOMAIN fr \cup {kk} |->
                            IF j = kk THEN [x |-> r.x, history |-> r.history] ELSE fr[j]])

InitialFrontier == [j \in {1} |-> [x |-> 0, history |-> <<>>]]

\* C7 as stated: at every (d, k) visited the move is down exactly when
\* k = -d, or k # d and diagonal k-1 has reached further right than diagonal
\* k+1; an engine with that rule returns the script of checkpoint_diff.
C7_AsStated ==
  /\ Visited => (go_down <=> StatedRule(d, k, frontier))
  /\ Returned => history = EngineRun("stated", 0, 0, InitialFrontier)

\* C7 amended: at every (d, k) visited the move is down exactly when k = -d,
\* or k # d and diagonal k-1 has reached less far right than diagonal k+1;
\* an engine with that rule returns the script of checkpoint_diff.
C7_Amended ==
  /\ Visited => (go_down <=> AmendedRule(d, k, frontier))
  /\ Returned => history = EngineRun("amended", 0, 0, InitialFrontier)

C7_Witness ==
  /\ Returned
  /\ k # -d
  /\ k # d
  /\ frontier[k - 1].x < frontier[k + 1].x
  /\ go_down
  /\ history # EngineRun("stated", 0, 0, InitialFrontier)

\* C8: the search returns only from the corner x = |A|, y = |B|, although
\* the frontier may hold points outside the edit graph whose history has a
\* Remove appended for a down move.
C8_Corner ==
  Returned =>
    /\ x = a_max
    /\ y = b_max
    /\ Count(history, {"Keep", "Remove"}) = a_max
    /\ Count(history, {"Keep", "Insert"}) = b_max

C8_Witness ==
  /\ Returned
  /\ \E j \in DOMAIN frontier :
       /\ frontier[j].x - j > b_max
       /\ 1 <= frontier[j].x
       /\ frontier[j].x <= a_max
       /\ Count(frontier[j].history, {"Keep", "Remove"}) > frontier[j].x

\* C9: a frontier entry recorded for diagonal j at level recorded[j] whose
\* point (x, y = x - j) lies in the edit graph has a history that is a script
\* from the first x elements of A to the first y elements of B with exactly
\* recorded[j] Insert and Remove steps.
C9_Frontier ==
  \A j \in DOMAIN frontier :
    InRange(j) =>
      LET h == frontier[j].history
          fx == frontier[j].x
          fy == frontier[j].x - j
      IN /\ Count(h, {"Keep", "Remove"}) = fx
         /\ Count(h, {"Keep", "Insert"}) = fy
         /\ Count(h, {"Insert", "Remove"}) = recorded[j]
         /\ Proj(h, {"Keep", "Remove"}) = SubSeq(param_list_a, 1, fx)
         /\ Proj(h, {"Keep", "Insert"}) = SubSeq(param_list_b, 1, fy)

C9_Witness ==
  \E j \in DOMAIN frontier :
    /\ InRange(j)
    /\ recorded[j] >= 1
    /\ Count(frontier[j].history, {"Keep"}) > 0
    /\ Count(frontier[j].history, {"Insert", "Remove"}) > 0

\* C10: no lookup of the search fails: the frontier entries read at level d
\* were recorded at level d - 1 (the initial entry of diagonal 1 for d = 0),
\* and every index used on the two parameter lists is within the list.
C10_Lookups ==
  /\ pc \notin {"KeyError", "IndexError"}
  /\ used_a \subseteq 0..(a_max - 1)
  /\ used_b \subseteq 0..(b_max - 1)
  /\ Visited =>
       \A j \in TestReads(d, k) \cup {IF go_down THEN k + 1 ELSE k - 1} :
         j \in DOMAIN recorded /\ recorded[j] = d - 1

C10_Witness ==
  /\ pc = "search"
  /\ d >= 2
  /\ k # -d
  /\ k # d
  /\ used_a # {}
  /\ used_b # {}

====
